---- MODULE Spec2Model ----
(***************************************************************************)
(* A model of tensorflow/python/framework/device.py: the Device class      *)
(* (constructor, property setters, _clear, parse_from_string, merge_from,  *)
(* to_string) and the module functions from_string and merge_device.       *)
(*                                                                         *)
(* A Python string is a sequence of atoms.  The atoms "/" and ":" are the  *)
(* two delimiter characters; every other atom is a non-empty run of        *)
(* characters that holds neither delimiter (a word).  str.split, str.upper,*)
(* int() and str() are computed on this representation.                    *)
(***************************************************************************)
EXTENDS Integers, Sequences, FiniteSets

VARIABLES heap, fns, arg, last, node, log

vars == <<heap, fns, arg, last, node, log>>

(***************************************************************************)
(* Python values: None, an int, a str.                                     *)
(***************************************************************************)
None == [k |-> "none"]

PyInt(n) == [k |-> "int", n |-> n]

PyStr(s) == [k |-> "str", s |-> s]

IsNone(v) == v.k = "none"

IsInt(v) == v.k = "int"

IsStr(v) == v.k = "str"

SLASH == "/"

COLON == ":"

(***************************************************************************)
(* str.split(sep) for a one-character separator: the pieces between the    *)
(* separators, always at least one piece, empty pieces kept.               *)
(***************************************************************************)
RECURSIVE Split(_, _)
Split(s, sep) ==
  IF s = <<>> THEN << <<>> >>
  ELSE LET r == Split(Tail(s), sep)
       IN  IF Head(s) = sep THEN << <<>> >> \o r
           ELSE << <<Head(s)>> \o Head(r) >> \o Tail(r)

(***************************************************************************)
(* str.upper() on one word, and on a string.                               *)
(***************************************************************************)
UpperWord(w) ==
  CASE w = "cpu" -> "CPU"
    [] w = "gpu" -> "GPU"
    [] w = "Gpu" -> "GPU"
    [] w = "tpu" -> "TPU"
    [] w = "job" -> "JOB"
    [] w = "replica" -> "REPLICA"
    [] w = "task" -> "TASK"
    [] w = "device" -> "DEVICE"
    [] w = "bogus" -> "BOGUS"
    [] w = "a" -> "A"
    [] w = "b" -> "B"
    [] w = "x" -> "X"
    [] w = "old" -> "OLD"
    [] w = "w" -> "W"
    [] w = "ps" -> "PS"
    [] w = "worker" -> "WORKER"
    [] OTHER -> w

Upper(s) == [i \in 1..Len(s) |-> UpperWord(s[i])]

(***************************************************************************)
(* int(x) of a str: the decimal literals of the model's alphabet.  A       *)
(* leading zero is accepted and dropped, anything else raises ValueError.  *)
(***************************************************************************)
IntLiteral(s) ==
  CASE s = <<"0">> -> PyInt(0)
    [] s = <<"1">> -> PyInt(1)
    [] s = <<"01">> -> PyInt(1)
    [] s = <<"2">> -> PyInt(2)
    [] s = <<"3">> -> PyInt(3)
    [] s = <<"7">> -> PyInt(7)
    [] OTHER -> None

\* int(v) succeeds
IntOk(v) == IsInt(v) \/ (IsStr(v) /\ ~IsNone(IntLiteral(v.s)))

\* int(v), where it succeeds
IntOf(v) == IF IsInt(v) THEN v ELSE IntLiteral(v.s)

(***************************************************************************)
(* str(x): the decimal form of an int, a str as it is.                     *)
(***************************************************************************)
Decimal(n) ==
  CASE n = 0 -> <<"0">>
    [] n = 1 -> <<"1">>
    [] n = 2 -> <<"2">>
    [] n = 3 -> <<"3">>
    [] n = 7 -> <<"7">>

StrOf(v) == IF IsInt(v) THEN PyStr(Decimal(v.n)) ELSE v

(***************************************************************************)
(* A Device object: the five attributes.                                   *)
(***************************************************************************)
Fields == {"job", "replica", "task", "device_type", "device_index"}

\* Clear with the reset of _task left out
Clear_KeepsTask(d) ==
  [d EXCEPT !.job = None, !.replica = None,
            !.device_type = None, !.device_index = None]

\* Device._clear
Clear(d) ==
  [d EXCEPT !.job = None, !.replica = None, !.task = None,
            !.device_type = None, !.device_index = None]

\* the job setter
SetJob(d, v) == [d EXCEPT !.job = IF IsNone(v) THEN None ELSE StrOf(v)]

\* the replica setter; SetReplicaOk says int() does not raise
SetReplicaOk(v) == IsNone(v) \/ IntOk(v)

SetReplica(d, v) == [d EXCEPT !.replica = IF IsNone(v) THEN None ELSE IntOf(v)]

\* the task setter
SetTaskOk(v) == IsNone(v) \/ IntOk(v)

SetTask(d, v) == [d EXCEPT !.task = IF IsNone(v) THEN None ELSE IntOf(v)]

\* device_type and device_index are plain attributes
SetDeviceType(d, v) == [d EXCEPT !.device_type = v]

SetDeviceIndex(d, v) == [d EXCEPT !.device_index = v]

Blank ==
  [job |-> None, replica |-> None, task |-> None,
   device_type |-> None, device_index |-> None]

(***************************************************************************)
(* Device.__init__: the result is [ok, dev]; ok is FALSE when a setter     *)
(* raises ValueError, and then no object exists.                           *)
(***************************************************************************)
InitDeviceType(v) ==
  IF v = PyStr(<<"cpu">>) \/ v = PyStr(<<"gpu">>) THEN PyStr(Upper(v.s)) ELSE v

DeviceInit(a) ==
  IF ~SetReplicaOk(a.replica) \/ ~SetTaskOk(a.task)
  THEN [ok |-> FALSE, dev |-> Blank]
  ELSE [ok |-> TRUE,
        dev |-> SetDeviceIndex(
                  SetDeviceType(
                    SetTask(SetReplica(SetJob(Blank, a.job), a.replica), a.task),
                    InitDeviceType(a.device_type)),
                  a.device_index)]

(***************************************************************************)
(* Device.parse_from_string.  ParseSegment is one turn of the loop on the  *)
(* segment y (a sequence of tokens): it gives the object after the turn    *)
(* and the error raised, "ok" when none is.                                *)
(***************************************************************************)
IsShortKind(y) ==
  /\ Len(y) = 1 \/ Len(y) = 2
  /\ Upper(y[1]) = <<"GPU">> \/ Upper(y[1]) = <<"CPU">>

\* ShortKind with the index parsed before the kind is stored
ShortKind_IndexFirst(d, y) ==
  IF ~IsNone(d.device_type)
  THEN [dev |-> d, err |-> "DuplicateDeviceType"]
  ELSE IF Len(y) = 2 /\ y[2] # <<"*">>
       THEN IF IntOk(PyStr(y[2]))
            THEN [dev |-> SetDeviceIndex(SetDeviceType(d, PyStr(Upper(y[1]))),
                                         IntOf(PyStr(y[2]))), err |-> "ok"]
            ELSE [dev |-> d, err |-> "InvalidFormat"]
       ELSE [dev |-> SetDeviceType(d, PyStr(Upper(y[1]))), err |-> "ok"]

ShortKind(d, y) ==
  IF ~IsNone(d.device_type)
  THEN [dev |-> d, err |-> "DuplicateDeviceType"]
  ELSE LET d1 == SetDeviceType(d, PyStr(Upper(y[1])))
       IN  IF Len(y) = 2 /\ y[2] # <<"*">>
           THEN IF IntOk(PyStr(y[2]))
                THEN [dev |-> SetDeviceIndex(d1, IntOf(PyStr(y[2]))), err |-> "ok"]
                ELSE [dev |-> d1, err |-> "InvalidFormat"]
           ELSE [dev |-> d1, err |-> "ok"]

\* LongKind without the test for a kind already set
LongKind_NoDuplicateCheck(d, y) ==
  LET d1 == SetDeviceType(d, PyStr(y[2]))
  IN  IF y[3] # <<"*">>
      THEN IF IntOk(PyStr(y[3]))
           THEN [dev |-> SetDeviceIndex(d1, IntOf(PyStr(y[3]))), err |-> "ok"]
           ELSE [dev |-> d1, err |-> "InvalidFormat"]
      ELSE [dev |-> d1, err |-> "ok"]

LongKind(d, y) ==
  IF ~IsNone(d.device_type)
  THEN [dev |-> d, err |-> "DuplicateDeviceType"]
  ELSE LET d1 == SetDeviceType(d, PyStr(y[2]))
       IN  IF y[3] # <<"*">>
           THEN IF IntOk(PyStr(y[3]))
                THEN [dev |-> SetDeviceIndex(d1, IntOf(PyStr(y[3]))), err |-> "ok"]
                ELSE [dev |-> d1, err |-> "InvalidFormat"]
           ELSE [dev |-> d1, err |-> "ok"]

\* the last branch of the loop: a segment no earlier branch took
IsUnknown(y) == Len(y) # 0 /\ y[1] # <<>>

ParseSegment(d, y) ==
  LET ly == Len(y)
  IN  IF ly = 2 /\ y[1] = <<"job">>
      THEN [dev |-> SetJob(d, PyStr(y[2])), err |-> "ok"]
      ELSE IF ly = 2 /\ y[1] = <<"replica">>
      THEN IF SetReplicaOk(PyStr(y[2]))
           THEN [dev |-> SetReplica(d, PyStr(y[2])), err |-> "ok"]
           ELSE [dev |-> d, err |-> "InvalidFormat"]
      ELSE IF ly = 2 /\ y[1] = <<"task">>
      THEN IF SetTaskOk(PyStr(y[2]))
           THEN [dev |-> SetTask(d, PyStr(y[2])), err |-> "ok"]
           ELSE [dev |-> d, err |-> "InvalidFormat"]
      ELSE IF IsShortKind(y) THEN ShortKind(d, y)
      ELSE IF ly = 3 /\ y[1] = <<"device">> THEN LongKind(d, y)
      ELSE IF IsUnknown(y) THEN [dev |-> d, err |-> "UnknownAttribute"]
      ELSE [dev |-> d, err |-> "ok"]

\* splits = [x.split(":") for x in spec.split("/")]
Splits(spec) ==
  LET segs == Split(spec, SLASH)
  IN  [i \in 1..Len(segs) |-> Split(segs[i], COLON)]

\* the loop from its i-th turn on; at is the turn that raised, 0 when none did
RECURSIVE ParseLoop(_, _, _)
ParseLoop(d, splits, i) ==
  IF i > Len(splits) THEN [dev |-> d, err |-> "ok", at |-> 0]
  ELSE LET r == ParseSegment(d, splits[i])
       IN  IF r.err # "ok" THEN [dev |-> r.dev, err |-> r.err, at |-> i]
           ELSE ParseLoop(r.dev, splits, i + 1)

ParseFromString(d, spec) == ParseLoop(Clear(d), Splits(spec), 1)

\* from_string(spec): Device().parse_from_string(spec)
FromString(spec) == ParseFromString(Blank, spec)

(***************************************************************************)
(* Device.merge_from(dev)                                                  *)
(***************************************************************************)
\* MergeFromDev that fills only the fields self lacks
MergeFromDev_KeepsOwn(d, dev) ==
  LET d1 == IF IsNone(d.job) /\ ~IsNone(dev.job) THEN SetJob(d, dev.job) ELSE d
      d2 == IF IsNone(d.replica) /\ ~IsNone(dev.replica)
            THEN SetReplica(d1, dev.replica) ELSE d1
      d3 == IF IsNone(d.task) /\ ~IsNone(dev.task) THEN SetTask(d2, dev.task) ELSE d2
      d4 == IF IsNone(d.device_type) /\ ~IsNone(dev.device_type)
            THEN SetDeviceType(d3, dev.device_type) ELSE d3
  IN  IF IsNone(d.device_index) /\ ~IsNone(dev.device_index)
      THEN SetDeviceIndex(d4, dev.device_index) ELSE d4

\* MergeFromDev with the device_index left out
MergeFromDev_NoIndex(d, dev) ==
  LET d1 == IF ~IsNone(dev.job) THEN SetJob(d, dev.job) ELSE d
      d2 == IF ~IsNone(dev.replica) THEN SetReplica(d1, dev.replica) ELSE d1
      d3 == IF ~IsNone(dev.task) THEN SetTask(d2, dev.task) ELSE d2
  IN  IF ~IsNone(dev.device_type)
      THEN SetDeviceType(d3, dev.device_type) ELSE d3

MergeFromDev(d, dev) ==
  LET d1 == IF ~IsNone(dev.job) THEN SetJob(d, dev.job) ELSE d
      d2 == IF ~IsNone(dev.replica) THEN SetReplica(d1, dev.replica) ELSE d1
      d3 == IF ~IsNone(dev.task) THEN SetTask(d2, dev.task) ELSE d2
      d4 == IF ~IsNone(dev.device_type)
            THEN SetDeviceType(d3, dev.device_type) ELSE d3
  IN  IF ~IsNone(dev.device_index)
      THEN SetDeviceIndex(d4, dev.device_index) ELSE d4

(***************************************************************************)
(* Device.to_string                                                        *)
(***************************************************************************)
\* ToString that prints the replica under the task's label
ToString_ReplicaAsTask(d) ==
  LET j == IF ~IsNone(d.job) THEN <<SLASH, "job", COLON>> \o d.job.s ELSE <<>>
      r == IF ~IsNone(d.replica)
           THEN <<SLASH, "task", COLON>> \o StrOf(d.replica).s ELSE <<>>
      t == IF ~IsNone(d.task)
           THEN <<SLASH, "task", COLON>> \o StrOf(d.task).s ELSE <<>>
      x == IF ~IsNone(d.device_index) THEN StrOf(d.device_index).s ELSE <<"*">>
      k == IF ~IsNone(d.device_type)
           THEN <<SLASH, "device", COLON>> \o d.device_type.s \o <<COLON>> \o x
           ELSE <<>>
  IN  j \o r \o t \o k

\* ToString that prints no ":*" for an absent device_index
ToString_NoWildcard(d) ==
  LET j == IF ~IsNone(d.job) THEN <<SLASH, "job", COLON>> \o d.job.s ELSE <<>>
      r == IF ~IsNone(d.replica)
           THEN <<SLASH, "replica", COLON>> \o StrOf(d.replica).s ELSE <<>>
      t == IF ~IsNone(d.task)
           THEN <<SLASH, "task", COLON>> \o StrOf(d.task).s ELSE <<>>
      x == IF ~IsNone(d.device_index)
           THEN <<COLON>> \o StrOf(d.device_index).s ELSE <<>>
      k == IF ~IsNone(d.device_type)
           THEN <<SLASH, "device", COLON>> \o d.device_type.s \o x
           ELSE <<>>
  IN  j \o r \o t \o k

ToString(d) ==
  LET j == IF ~IsNone(d.job) THEN <<SLASH, "job", COLON>> \o d.job.s ELSE <<>>
      r == IF ~IsNone(d.replica)
           THEN <<SLASH, "replica", COLON>> \o StrOf(d.replica).s ELSE <<>>
      t == IF ~IsNone(d.task)
           THEN <<SLASH, "task", COLON>> \o StrOf(d.task).s ELSE <<>>
      x == IF ~IsNone(d.device_index) THEN StrOf(d.device_index).s ELSE <<"*">>
      k == IF ~IsNone(d.device_type)
           THEN <<SLASH, "device", COLON>> \o d.device_type.s \o <<COLON>> \o x
           ELSE <<>>
  IN  j \o r \o t \o k

(***************************************************************************)
(* merge_device(spec) and the _device_function it returns.  A closure is   *)
(* the heap place of the Device it captured.  DeviceFunction gives the     *)
(* heap after a call on the device string c, the place of the Device       *)
(* returned, and the error raised ("ok" when none).                        *)
(***************************************************************************)
PyDev(x) == [k |-> "device", id |-> x]

\* v or ""
OrEmpty(v) == IF IsNone(v) THEN <<>> ELSE v.s

\* copy.copy(spec) done as copy_spec = spec
CopySpec_Alias(h, x) == [heap |-> h, id |-> x]

\* copy.copy(spec): a new object with the attributes of h[x]
CopySpec(h, x) == [heap |-> Append(h, h[x]), id |-> Len(h) + 1]

DeviceFunction(h, x, c) ==
  LET cur == FromString(OrEmpty(c))
      cp == CopySpec(h, x)
  IN  IF cur.err # "ok" THEN [err |-> cur.err, heap |-> h, id |-> 0]
      ELSE [err |-> "ok",
            heap |-> [cp.heap EXCEPT ![cp.id] = MergeFromDev(cp.heap[cp.id], cur.dev)],
            id |-> cp.id]

(***************************************************************************)
(* Bounds and the inputs drawn.                                            *)
(***************************************************************************)
MaxSegs == 3

MaxObjs == 3

MaxDepth == 4

RECURSIVE Join(_)
Join(segs) ==
  IF segs = <<>> THEN <<>> ELSE <<SLASH>> \o Head(segs) \o Join(Tail(segs))

\* "/seg/seg/...", up to MaxSegs segments, each drawn from vocab
StringsOver(vocab) ==
  { Join(q) : q \in UNION { [1..n -> vocab] : n \in 0..MaxSegs } }

\* the segments of the strings given to from_string
Segments ==
  { <<>>,
    <<"job", COLON, "a">>,
    <<"replica", COLON, "01">>,
    <<"task", COLON, "x">>,
    <<"cpu">>,
    <<"Gpu", COLON, "*">>,
    <<"gpu", COLON, "x">>,
    <<"device", COLON, "CPU", COLON, "0">>,
    <<"device", COLON, "GPU", COLON, "1">>,
    <<"device", COLON, "tpu", COLON, "*">>,
    <<"device", COLON, COLON, "x">>,
    <<"bogus", COLON, "x">>,
    <<COLON, "x">> }

Strings == StringsOver(Segments)

(***************************************************************************)
(* The calls a client makes.  heap holds the Device objects made so far,   *)
(* an object's identity being its place in heap; last is the call made     *)
(* last, with what it was given and what it did.                           *)
(***************************************************************************)
NoArgs == Blank

NoCall ==
  [op |-> "none", self |-> 0, other |-> 0, args |-> NoArgs, spec |-> <<>>,
   status |-> "ok", at |-> 0, ret |-> Blank]

\* no op is being placed; nothing returned by a device function yet
NoNode == [device |-> <<>>, next |-> 0]

NoLog == [captured |-> <<>>, returned |-> <<>>, results |-> <<>>]

\* d = Device(job, replica, task, device_type, device_index)
New(a) ==
  /\ LET r == DeviceInit(a)
     IN  /\ heap' = IF r.ok THEN Append(heap, r.dev) ELSE heap
         /\ last' = [NoCall EXCEPT !.op = "init", !.args = a,
                       !.self = IF r.ok THEN Len(heap) + 1 ELSE 0,
                       !.status = IF r.ok THEN "ok" ELSE "InvalidArgument",
                       !.ret = r.dev]
  /\ UNCHANGED <<fns, arg, node, log>>

\* d = from_string(s): the object stays only when the parse does not raise
FromStr(s) ==
  /\ LET r == FromString(s)
     IN  /\ heap' = IF r.err = "ok" THEN Append(heap, r.dev) ELSE heap
         /\ last' = [NoCall EXCEPT !.op = "from_string", !.spec = s,
                       !.self = IF r.err = "ok" THEN Len(heap) + 1 ELSE 0,
                       !.status = r.err, !.at = r.at, !.ret = r.dev]
  /\ UNCHANGED <<fns, arg, node, log>>

\* heap[x].parse_from_string(s)
Parse(x, s) ==
  /\ x \in 1..Len(heap)
  /\ LET r == ParseFromString(heap[x], s)
     IN  /\ heap' = [heap EXCEPT ![x] = r.dev]
         /\ last' = [NoCall EXCEPT !.op = "parse", !.self = x, !.spec = s,
                       !.status = r.err, !.at = r.at, !.ret = r.dev]
  /\ UNCHANGED <<fns, arg, node, log>>

\* heap[x].merge_from(heap[y])
Merge(x, y) ==
  /\ x \in 1..Len(heap)
  /\ y \in 1..Len(heap)
  /\ heap' = [heap EXCEPT ![x] = MergeFromDev(heap[x], heap[y])]
  /\ last' = [NoCall EXCEPT !.op = "merge", !.self = x, !.other = y]
  /\ UNCHANGED <<fns, arg, node, log>>

\* from_string(heap[x].to_string()); the Device it returns is last.ret
Reparse(x) ==
  /\ x \in 1..Len(heap)
  /\ LET s == ToString(heap[x])
         r == FromString(s)
     IN  last' = [NoCall EXCEPT !.op = "reparse", !.self = x, !.spec = s,
                    !.status = r.err, !.at = r.at, !.ret = r.dev]
  /\ UNCHANGED <<heap, fns, arg, node, log>>

\* f = merge_device(v), v a Device (its place in heap), a str or None
MergeDevice(v) ==
  /\ IF v.k = "device"
     THEN /\ v.id \in 1..Len(heap)
          /\ fns' = Append(fns, [spec |-> v.id])
          /\ log' = [log EXCEPT !.captured = Append(@, heap[v.id])]
          /\ last' = [NoCall EXCEPT !.op = "merge_device", !.self = v.id]
          /\ UNCHANGED heap
     ELSE LET r == FromString(OrEmpty(v))
          IN  IF r.err = "ok"
              THEN /\ heap' = Append(heap, r.dev)
                   /\ fns' = Append(fns, [spec |-> Len(heap) + 1])
                   /\ log' = [log EXCEPT !.captured = Append(@, r.dev)]
                   /\ last' = [NoCall EXCEPT !.op = "merge_device",
                                 !.spec = OrEmpty(v), !.self = Len(heap) + 1]
              ELSE /\ last' = [NoCall EXCEPT !.op = "merge_device",
                                 !.spec = OrEmpty(v), !.status = r.err, !.at = r.at]
                   /\ UNCHANGED <<heap, fns, log>>
  /\ UNCHANGED <<arg, node>>

\* d = fns[f](node_def), node_def.device being c; the client keeps d
Call(f, c) ==
  /\ f \in 1..Len(fns)
  /\ LET e == DeviceFunction(heap, fns[f].spec, c)
     IN  /\ heap' = e.heap
         /\ last' = [NoCall EXCEPT !.op = "call", !.other = f, !.spec = OrEmpty(c),
                       !.status = e.err, !.self = e.id,
                       !.ret = IF e.err = "ok" THEN e.heap[e.id] ELSE Blank]
         /\ log' = IF e.err = "ok"
                   THEN [log EXCEPT !.returned = Append(@, e.id),
                                    !.results = Append(@, [f |-> f, cand |-> OrEmpty(c),
                                                           dev |-> e.heap[e.id]])]
                   ELSE log
  /\ UNCHANGED <<fns, arg, node>>

\* an op is created with the device string dev: the device functions of the
\* scopes it is in are to be applied, the innermost first
CreateOp(dev) ==
  /\ node.next = 0
  /\ fns # <<>>
  /\ node' = [device |-> dev, next |-> Len(fns)]
  /\ last' = [NoCall EXCEPT !.op = "create_op", !.spec = dev]
  /\ UNCHANGED <<heap, fns, arg, log>>

\* one turn of the loop: op._set_device(device_function(op)); the Device
\* returned is dropped once its to_string() is stored
ApplyDeviceFunction ==
  /\ node.next > 0
  /\ LET f == node.next
         e == DeviceFunction(heap, fns[f].spec, PyStr(node.device))
     IN  /\ heap' = SubSeq(e.heap, 1, Len(heap))
         /\ node' = IF e.err = "ok"
                    THEN [device |-> ToString(e.heap[e.id]), next |-> f - 1]
                    ELSE [node EXCEPT !.next = 0]
         /\ last' = [NoCall EXCEPT !.op = "call", !.other = f, !.spec = node.device,
                       !.status = e.err,
                       !.ret = IF e.err = "ok" THEN e.heap[e.id] ELSE Blank]
  /\ UNCHANGED <<fns, arg, log>>

(***************************************************************************)
(* SpecFromString: a run draws one string, gives it to from_string, and    *)
(* parses the result's to_string() again.                                  *)
(***************************************************************************)
InitFromString ==
  /\ heap = <<>>
  /\ fns = <<>>
  /\ arg \in Strings
  /\ last = NoCall
  /\ node = NoNode
  /\ log = NoLog

FromStringArg == heap = <<>> /\ FromStr(arg)

FromStringReparse == Reparse(1)

NextFromString ==
  \/ FromStringArg
  \/ FromStringReparse

SpecFromString == InitFromString /\ [][NextFromString]_vars

(***************************************************************************)
(* The grammar of a segment, as the claims word it.                        *)
(***************************************************************************)
DigitWords == {"0", "1", "01", "2", "3", "7"}

IsIntText(tok) == Len(tok) = 1 /\ tok[1] \in DigitWords

IsIndexText(tok) == tok = <<"*">> \/ IsIntText(tok)

JobForm(y) == Len(y) = 2 /\ y[1] = <<"job">>

ReplicaForm(y) == Len(y) = 2 /\ y[1] = <<"replica">>

TaskForm(y) == Len(y) = 2 /\ y[1] = <<"task">>

ShortForm(y) ==
  /\ Len(y) \in {1, 2}
  /\ Len(y[1]) = 1
  /\ y[1][1] \in {"CPU", "cpu", "GPU", "gpu", "Gpu"}

LongForm(y) == Len(y) = 3 /\ y[1] = <<"device">>

KnownForm(seg) ==
  LET y == Split(seg, COLON)
  IN  JobForm(y) \/ ReplicaForm(y) \/ TaskForm(y) \/ ShortForm(y) \/ LongForm(y)

NamesKind(seg) ==
  LET y == Split(seg, COLON) IN ShortForm(y) \/ LongForm(y)

WellFormed(seg) ==
  LET y == Split(seg, COLON)
  IN  \/ seg = <<>>
      \/ JobForm(y)
      \/ ReplicaForm(y) /\ IsIntText(y[2])
      \/ TaskForm(y) /\ IsIntText(y[2])
      \/ ShortForm(y) /\ (Len(y) = 1 \/ IsIndexText(y[2]))
      \/ LongForm(y) /\ IsIndexText(y[3])

SegsOf(s) == Split(s, SLASH)

\* the parse of last.spec got as far as its i-th segment
Reached(i) == last.status = "ok" \/ last.at >= i

(***************************************************************************)
(* C4: every non-empty segment that parse_from_string reaches and that has *)
(* none of the five forms makes the parse fail with the unknown-attribute  *)
(* error at that segment; only empty segments are passed over.             *)
(***************************************************************************)
C4_UnknownSegmentRejected ==
  last.op = "from_string" =>
    \A i \in 1..Len(SegsOf(last.spec)) :
      (SegsOf(last.spec)[i] # <<>> /\ ~KnownForm(SegsOf(last.spec)[i]) /\ Reached(i))
        => (last.status = "UnknownAttribute" /\ last.at = i)

(***************************************************************************)
(* C5: when every segment of the string is well-formed, from_string fails  *)
(* with the duplicate-device-type error exactly when two or more segments  *)
(* name a device kind, short and long forms counted together.              *)
(***************************************************************************)
KindCount(s) ==
  Cardinality({i \in 1..Len(SegsOf(s)) : NamesKind(SegsOf(s)[i])})

C5_DeviceKindAtMostOnce ==
  (last.op = "from_string" /\ \A i \in 1..Len(SegsOf(last.spec)) :
                                 WellFormed(SegsOf(last.spec)[i]))
    => (last.status = "DuplicateDeviceType" <=> KindCount(last.spec) >= 2)

\* "/device:CPU:0/device:GPU:1" was given and the duplicate was reported
C5_Witness ==
  /\ last.op = "from_string"
  /\ last.spec = <<SLASH, "device", COLON, "CPU", COLON, "0",
                   SLASH, "device", COLON, "GPU", COLON, "1">>
  /\ last.status = "DuplicateDeviceType"

(***************************************************************************)
(* C8: for a string s that from_string accepts, parsing the to_string() of *)
(* the result succeeds and gives the same five fields.                     *)
(***************************************************************************)
C8_ParseIdempotent ==
  last.op = "reparse" => (last.status = "ok" /\ last.ret = heap[last.self])

\* "Gpu:*" and "replica:01" were parsed, normalised, printed and parsed again
C8_Witness ==
  /\ last.op = "reparse"
  /\ heap[last.self].device_type = PyStr(<<"GPU">>)
  /\ IsNone(heap[last.self].device_index)
  /\ heap[last.self].replica = PyInt(1)
  /\ last.ret = heap[last.self]

(***************************************************************************)
(* SpecParse: a run draws one string; Devices are built by the constructor *)
(* and the first of them, heap[1], is parsed into (strings parsed earlier, *)
(* then the run's own) and merged into.                                    *)
(***************************************************************************)
OldArgs ==
  [job |-> PyStr(<<"old">>), replica |-> PyInt(7), task |-> PyInt(7),
   device_type |-> PyStr(<<"OLD">>), device_index |-> PyInt(7)]

PreArgs == {OldArgs}

\* strings parsed before the run's own: one that fails, one that succeeds
EarlierStrings ==
  { <<SLASH, "job", COLON, "old", SLASH, "task", COLON, "7", SLASH, "gpu", COLON, "x">>,
    <<SLASH, "replica", COLON, "7", SLASH, "device", COLON, "OLD", COLON, "7">> }

HistSegments ==
  { <<"job", COLON, "a">>,
    <<"replica", COLON, "01">>,
    <<"task", COLON, "x">>,
    <<"cpu">>,
    <<"gpu", COLON, "x">>,
    <<"device", COLON, "tpu", COLON, "*">>,
    <<"device", COLON, COLON, "x">>,
    <<"bogus", COLON, "x">> }

HistStrings == StringsOver(HistSegments)

InitParse ==
  /\ heap = <<>>
  /\ fns = <<>>
  /\ arg \in HistStrings
  /\ last = NoCall
  /\ node = NoNode
  /\ log = NoLog

ParseNew == Len(heap) < MaxObjs /\ \E a \in PreArgs : New(a)

ParseEarlier == \E s \in EarlierStrings : Parse(1, s)

ParseArg == Parse(1, arg)

ParseMerge == \E y \in 2..Len(heap) : Merge(1, y)

NextParse ==
  \/ ParseNew
  \/ ParseEarlier
  \/ ParseArg
  \/ ParseMerge

SpecParse == InitParse /\ [][NextParse]_vars

(***************************************************************************)
(* What the segments before the k-th assign, read off the string.          *)
(***************************************************************************)
TokensOf(s, i) == Split(SegsOf(s)[i], COLON)

\* the last segment before the k-th that has the form F, 0 when there is none
LastBefore(s, k, F(_)) ==
  LET S == {i \in 1..(k - 1) : F(TokensOf(s, i))}
  IN  IF S = {} THEN 0 ELSE CHOOSE i \in S : \A j \in S : j <= i

KindForm(y) == ShortForm(y) \/ LongForm(y)

\* the kind and the index a device segment names
KindOf(y) ==
  IF ShortForm(y)
  THEN (IF y[1][1] \in {"CPU", "cpu"} THEN PyStr(<<"CPU">>) ELSE PyStr(<<"GPU">>))
  ELSE PyStr(y[2])

IndexOf(y) ==
  LET tok == IF ShortForm(y) THEN (IF Len(y) = 2 THEN y[2] ELSE <<"*">>) ELSE y[3]
  IN  IF tok = <<"*">> THEN None ELSE IntLiteral(tok)

(***************************************************************************)
(* C9: after a successful x.parse_from_string(s) the five fields of x are  *)
(* those of from_string(s) on a fresh Device, whatever x held before; a    *)
(* field that no segment of s names is absent.                             *)
(***************************************************************************)
C9_ParseForgetsHistory ==
  (last.op = "parse" /\ last.status = "ok") =>
    LET d == heap[last.self]
        n == Len(SegsOf(last.spec)) + 1
    IN  /\ d = FromString(last.spec).dev
        /\ LastBefore(last.spec, n, JobForm) = 0 => IsNone(d.job)
        /\ LastBefore(last.spec, n, ReplicaForm) = 0 => IsNone(d.replica)
        /\ LastBefore(last.spec, n, TaskForm) = 0 => IsNone(d.task)
        /\ LastBefore(last.spec, n, KindForm) = 0
             => (IsNone(d.device_type) /\ IsNone(d.device_index))

\* "/job:a" was parsed into a Device built with all five fields set
C9_Witness ==
  /\ last.op = "parse"
  /\ last.status = "ok"
  /\ last.spec = <<SLASH, "job", COLON, "a">>
  /\ heap[last.self] = [Blank EXCEPT !.job = PyStr(<<"a">>)]

(***************************************************************************)
(* C10: after x.parse_from_string(s) fails at its k-th segment, x holds    *)
(* the fields the segments before the k-th assign, and device_type alone   *)
(* besides them when the k-th is a device segment whose index is no        *)
(* integer; every other field is absent, so nothing x held before the call *)
(* is left.                                                                *)
(***************************************************************************)
C10_StateAfterFailedParse ==
  (last.op = "parse" /\ last.status # "ok") =>
    LET s == last.spec
        k == last.at
        d == heap[last.self]
        j == LastBefore(s, k, JobForm)
        r == LastBefore(s, k, ReplicaForm)
        t == LastBefore(s, k, TaskForm)
        v == LastBefore(s, k, KindForm)
    IN  /\ k \in 1..Len(SegsOf(s))
        /\ d.job = IF j = 0 THEN None ELSE PyStr(TokensOf(s, j)[2])
        /\ d.replica = IF r = 0 THEN None ELSE IntLiteral(TokensOf(s, r)[2])
        /\ d.task = IF t = 0 THEN None ELSE IntLiteral(TokensOf(s, t)[2])
        /\ IF v # 0
           THEN /\ d.device_type = KindOf(TokensOf(s, v))
                /\ d.device_index = IndexOf(TokensOf(s, v))
           ELSE IF last.status = "InvalidFormat" /\ KindForm(TokensOf(s, k))
           THEN /\ d.device_type = KindOf(TokensOf(s, k))
                /\ IsNone(d.device_index)
           ELSE IsNone(d.device_type) /\ IsNone(d.device_index)

\* "/job:a/replica:01/gpu:x" failed at "gpu:x": job, replica and the kind stay
C10_Witness ==
  /\ last.op = "parse"
  /\ last.status = "InvalidFormat"
  /\ last.spec = <<SLASH, "job", COLON, "a", SLASH, "replica", COLON, "01",
                   SLASH, "gpu", COLON, "x">>
  /\ heap[last.self] = [Blank EXCEPT !.job = PyStr(<<"a">>), !.replica = PyInt(1),
                                     !.device_type = PyStr(<<"GPU">>)]

(***************************************************************************)
(* SpecCtor: a run builds one Device with the constructor and parses its   *)
(* to_string().                                                            *)
(***************************************************************************)
CtorArgs ==
  [job : {None, PyStr(<<"a">>), PyStr(<<>>), PyStr(<<"a", SLASH, "b">>),
          PyStr(<<"a", COLON, "b">>), PyInt(3)},
   replica : {None, PyInt(0), PyStr(<<"01">>), PyStr(<<"x">>)},
   task : {None, PyInt(1), PyStr(<<"x">>)},
   device_type : {None, PyStr(<<"cpu">>), PyStr(<<"GPU">>), PyStr(<<"tpu">>)},
   device_index : {None, PyInt(0), PyStr(<<"01">>), PyStr(<<"x">>)}]

InitCtor ==
  /\ heap = <<>>
  /\ fns = <<>>
  /\ arg = <<>>
  /\ last = NoCall
  /\ node = NoNode
  /\ log = NoLog

CtorNew == heap = <<>> /\ \E a \in CtorArgs : New(a)

CtorReparse == Reparse(1)

NextCtor ==
  \/ CtorNew
  \/ CtorReparse

SpecCtor == InitCtor /\ [][NextCtor]_vars

(***************************************************************************)
(* The constrained grammar of C1, on the fields of a Device.               *)
(***************************************************************************)
NoDelimiter(s) == \A i \in 1..Len(s) : s[i] \notin {SLASH, COLON}

NonNegative(v) == IsNone(v) \/ (IsInt(v) /\ v.n >= 0)

InGrammar(d) ==
  /\ IsNone(d.job) \/ (IsStr(d.job) /\ NoDelimiter(d.job.s))
  /\ NonNegative(d.replica)
  /\ NonNegative(d.task)
  /\ NonNegative(d.device_index)
  /\ \/ IsNone(d.device_type)
     \/ IsStr(d.device_type) /\ Len(d.device_type.s) = 1
                             /\ NoDelimiter(d.device_type.s)

(***************************************************************************)
(* C1 as stated: for every Device d the constructor builds within the      *)
(* constrained grammar, from_string(d.to_string()) succeeds and has the    *)
(* five fields of d.                                                       *)
(***************************************************************************)
C1_RoundTrip_AsStated ==
  (last.op = "reparse" /\ InGrammar(heap[last.self]))
    => (last.status = "ok" /\ last.ret = heap[last.self])

(***************************************************************************)
(* C1 amended: the same, for the Devices whose device_index is present     *)
(* only together with a device_type.                                       *)
(***************************************************************************)
C1_RoundTrip ==
  (/\ last.op = "reparse"
   /\ InGrammar(heap[last.self])
   /\ ~IsNone(heap[last.self].device_index) => ~IsNone(heap[last.self].device_type))
    => (last.status = "ok" /\ last.ret = heap[last.self])

\* Device("a", "01", 1, "cpu", 0) was printed and parsed back
C1_Witness ==
  /\ last.op = "reparse"
  /\ last.status = "ok"
  /\ heap[last.self] =
       [job |-> PyStr(<<"a">>), replica |-> PyInt(1), task |-> PyInt(1),
        device_type |-> PyStr(<<"CPU">>), device_index |-> PyInt(0)]
  /\ last.ret = heap[last.self]

(***************************************************************************)
(* C6: the constructor stores the integer of an integer-like replica, task *)
(* or device_index and fails on one that is present and is no integer, so  *)
(* that after a construction each of the three is absent or an integer.    *)
(***************************************************************************)
IntegerLike(v) == IsInt(v) \/ (IsStr(v) /\ IsIntText(v.s))

C6_NumericFieldsCoerced ==
  last.op = "init" =>
    \A f \in {"replica", "task", "device_index"} :
      LET v == last.args[f]
      IN  /\ (~IsNone(v) /\ ~IntegerLike(v)) => last.status # "ok"
          /\ (last.status = "ok" /\ IsNone(v)) => IsNone(last.ret[f])
          /\ (last.status = "ok" /\ IntegerLike(v))
               => last.ret[f] = (IF IsInt(v) THEN v ELSE IntLiteral(v.s))

(***************************************************************************)
(* SpecMerge: Devices built by the constructor and merged into each other. *)
(***************************************************************************)
MergeArgs ==
  { [NoArgs EXCEPT !.job = PyStr(<<"w">>), !.replica = PyInt(1)],
    [NoArgs EXCEPT !.task = PyInt(3)],
    [NoArgs EXCEPT !.job = PyInt(3), !.device_type = PyStr(<<"gpu">>),
                   !.device_index = PyStr(<<"x">>)],
    OldArgs }

InitMerge ==
  /\ heap = <<>>
  /\ fns = <<>>
  /\ arg = <<>>
  /\ last = NoCall
  /\ node = NoNode
  /\ log = NoLog

MergeNew == Len(heap) < MaxObjs /\ \E a \in MergeArgs : New(a)

MergeInto == \E x, y \in 1..Len(heap) : Merge(x, y)

NextMerge ==
  \/ MergeNew
  \/ MergeInto

SpecMerge == InitMerge /\ [][NextMerge]_vars

(***************************************************************************)
(* C3: a.merge_from(b) leaves in each field of a the value of b where b    *)
(* has one and the value a had where b has none, and changes no other      *)
(* object, b included; merging task=3 alone into job='w', replica=1 gives  *)
(* job='w', replica=1, task=3 with no device_type and no device_index.     *)
(***************************************************************************)
C3_MergeFromOverlay ==
  [][last'.op = "merge" =>
       LET a == last'.self
           b == last'.other
       IN  /\ \A f \in Fields :
                heap'[a][f] = IF ~IsNone(heap[b][f]) THEN heap[b][f] ELSE heap[a][f]
           /\ Len(heap') = Len(heap)
           /\ \A z \in 1..Len(heap) : z # a => heap'[z] = heap[z]
           /\ (/\ heap[a] = [Blank EXCEPT !.job = PyStr(<<"w">>), !.replica = PyInt(1)]
               /\ heap[b] = [Blank EXCEPT !.task = PyInt(3)])
                => heap'[a] = [Blank EXCEPT !.job = PyStr(<<"w">>),
                                            !.replica = PyInt(1), !.task = PyInt(3)]
    ]_vars

\* task=3 alone was merged into job='w', replica=1
C3_Witness ==
  /\ last.op = "merge"
  /\ last.self # last.other
  /\ heap[last.other] = [Blank EXCEPT !.task = PyInt(3)]
  /\ heap[last.self] = [Blank EXCEPT !.job = PyStr(<<"w">>),
                                     !.replica = PyInt(1), !.task = PyInt(3)]

(***************************************************************************)
(* SpecScope: scopes are entered one inside the other, each with           *)
(* merge_device of a string or of a Device, and an op is created in the    *)
(* innermost one with the run's device string.                             *)
(***************************************************************************)
ScopeStrings ==
  { <<SLASH, "device", COLON, "GPU", COLON, "0">>,
    <<SLASH, "job", COLON, "worker">>,
    <<SLASH, "device", COLON, "CPU", COLON, "0">>,
    <<SLASH, "job", COLON, "ps">> }

ScopeArgs ==
  { [NoArgs EXCEPT !.device_index = PyInt(1)],
    [NoArgs EXCEPT !.job = PyStr(<<"a", SLASH, "b">>), !.task = PyInt(3)] }

OpStarts ==
  { <<>>,
    <<SLASH, "cpu", COLON, "0">>,
    <<SLASH, "job", COLON, "a", SLASH, "replica", COLON, "01">> }

InitScope ==
  /\ heap = <<>>
  /\ fns = <<>>
  /\ arg \in OpStarts
  /\ last = NoCall
  /\ node = NoNode
  /\ log = NoLog

\* a Device was just built and is not yet given to merge_device
Pending == last.op = "init" /\ last.status = "ok"

ScopeNew ==
  /\ node.next = 0 /\ ~Pending /\ Len(fns) < MaxDepth
  /\ \E a \in ScopeArgs : New(a)

ScopeEnterDevice == Pending /\ MergeDevice(PyDev(last.self))

ScopeEnterString ==
  /\ node.next = 0 /\ ~Pending /\ Len(fns) < MaxDepth
  /\ \E s \in ScopeStrings : MergeDevice(PyStr(s))

ScopeCreateOp == ~Pending /\ last.op # "create_op" /\ CreateOp(arg)

ScopeApply == ApplyDeviceFunction

NextScope ==
  \/ ScopeNew
  \/ ScopeEnterDevice
  \/ ScopeEnterString
  \/ ScopeCreateOp
  \/ ScopeApply

SpecScope == InitScope /\ [][NextScope]_vars

(***************************************************************************)
(* What C2 says of one call and of a whole stack of scopes.                *)
(***************************************************************************)
ScopeSpec(i) == heap[fns[i].spec]

\* the result of the call has the candidate's value in each field the
\* candidate sets and the captured spec's value in the others
CallOverlays ==
  (last.op = "call" /\ last.status = "ok") =>
    \A f \in Fields :
      last.ret[f] = IF ~IsNone(FromString(last.spec).dev[f])
                    THEN FromString(last.spec).dev[f]
                    ELSE ScopeSpec(last.other)[f]

\* the value of the innermost scope that sets field f, None when none does
Innermost(f) ==
  LET S == {i \in 1..Len(fns) : ~IsNone(ScopeSpec(i)[f])}
  IN  IF S = {} THEN None
      ELSE ScopeSpec(CHOOSE i \in S : \A j \in S : j <= i)[f]

\* the op started with the empty device and every device function was applied
Resolved == last.op = "call" /\ node.next = 0 /\ arg = <<>>

InnermostWins ==
  /\ last.status = "ok"
  /\ \A f \in Fields : last.ret[f] = Innermost(f)
  /\ node.device = ToString(last.ret)

GPU0 == [Blank EXCEPT !.device_type = PyStr(<<"GPU">>), !.device_index = PyInt(0)]

CPU0 == [Blank EXCEPT !.device_type = PyStr(<<"CPU">>), !.device_index = PyInt(0)]

Worker == [Blank EXCEPT !.job = PyStr(<<"worker">>)]

Ps == [Blank EXCEPT !.job = PyStr(<<"ps">>)]

\* the scopes are the first n of the documented example, outermost first
ExampleScopes(n) ==
  /\ Len(fns) = n
  /\ \A i \in 1..n : ScopeSpec(i) = <<GPU0, Worker, CPU0, Ps>>[i]

DocumentedExample ==
  /\ (Resolved /\ ExampleScopes(2))
       => node.device = <<SLASH, "job", COLON, "worker",
                          SLASH, "device", COLON, "GPU", COLON, "0">>
  /\ (Resolved /\ ExampleScopes(3))
       => node.device = <<SLASH, "job", COLON, "worker",
                          SLASH, "device", COLON, "CPU", COLON, "0">>
  /\ (Resolved /\ ExampleScopes(4))
       => node.device = <<SLASH, "job", COLON, "ps",
                          SLASH, "device", COLON, "CPU", COLON, "0">>

\* from_string(d.to_string()) gives the fields of d back
RoundTrips(d) ==
  FromString(ToString(d)).err = "ok" /\ FromString(ToString(d)).dev = d

(***************************************************************************)
(* C2 as stated: merge_device(S)(c) overlays the candidate on S, and the   *)
(* device functions of any stack of scopes, applied from the innermost to  *)
(* the outermost on the to_string() of the result before, give in each     *)
(* field the value of the innermost scope that sets it; the documented     *)
(* example resolves to its three documented strings.                       *)
(***************************************************************************)
C2_ScopedMerge_AsStated ==
  /\ CallOverlays
  /\ Resolved => InnermostWins
  /\ DocumentedExample

(***************************************************************************)
(* C2 amended: the same, the stack of scopes being one whose every spec d  *)
(* is given back by from_string(d.to_string()), as every spec that         *)
(* merge_device parses from a string is.                                   *)
(***************************************************************************)
C2_ScopedMerge ==
  /\ CallOverlays
  /\ (Resolved /\ \A i \in 1..Len(fns) : RoundTrips(ScopeSpec(i))) => InnermostWins
  /\ DocumentedExample

\* the four scopes of the documented example, resolved to /job:ps/device:CPU:0
C2_Witness ==
  /\ Resolved
  /\ ExampleScopes(4)
  /\ last.ret = [Blank EXCEPT !.job = PyStr(<<"ps">>),
                              !.device_type = PyStr(<<"CPU">>),
                              !.device_index = PyInt(0)]

(***************************************************************************)
(* SpecClosure: one closure f = merge_device(S), S a Device the client     *)
(* built or a string; f is called, and the Devices it returned are parsed  *)
(* into and merged into.                                                   *)
(***************************************************************************)
ClosureArgs ==
  { [NoArgs EXCEPT !.job = PyStr(<<"w">>), !.replica = PyInt(1)],
    [NoArgs EXCEPT !.device_index = PyInt(1)] }

\* what merge_device is given when it is no Device
ClosureSpecs == {None, PyStr(<<SLASH, "device", COLON, "GPU", COLON, "0">>)}

\* node_def.device in the calls of f
Candidates == {None, PyStr(<<SLASH, "cpu", COLON, "0">>)}

MutationStrings == { <<SLASH, "task", COLON, "7", SLASH, "gpu", COLON, "x">> }

InitClosure ==
  /\ heap = <<>>
  /\ fns = <<>>
  /\ arg = <<>>
  /\ last = NoCall
  /\ node = NoNode
  /\ log = NoLog

ClosureNew == heap = <<>> /\ \E a \in ClosureArgs : New(a)

ClosureOfDevice == fns = <<>> /\ MergeDevice(PyDev(1))

ClosureOfString ==
  /\ fns = <<>> /\ heap = <<>>
  /\ \E v \in ClosureSpecs : MergeDevice(v)

ClosureCall ==
  /\ Len(heap) < MaxObjs
  /\ Len(log.returned) < MaxObjs
  /\ \E c \in Candidates : Call(1, c)

ClosureParse ==
  \E i \in 1..Len(log.returned) : \E s \in MutationStrings :
    Parse(log.returned[i], s)

ClosureMerge ==
  \E i \in 1..Len(log.returned) : \E y \in 1..Len(heap) :
    Merge(log.returned[i], y)

NextClosure ==
  \/ ClosureNew
  \/ ClosureOfDevice
  \/ ClosureOfString
  \/ ClosureCall
  \/ ClosureParse
  \/ ClosureMerge

SpecClosure == InitClosure /\ [][NextClosure]_vars

(***************************************************************************)
(* C7: whatever calls of f = merge_device(S) are made and whatever         *)
(* merge_from and parse_from_string do to the Devices f returned, S keeps  *)
(* the five fields it had when it was captured, every Device returned is   *)
(* an object other than S and than those returned before, and two calls    *)
(* with the same candidate string return equal fields.                     *)
(***************************************************************************)
C7_ClosureValueSemantics ==
  /\ \A f \in 1..Len(fns) : heap[fns[f].spec] = log.captured[f]
  /\ \A i \in 1..Len(log.returned) :
       /\ \A f \in 1..Len(fns) : log.returned[i] # fns[f].spec
       /\ \A j \in 1..Len(log.returned) : i # j => log.returned[i] # log.returned[j]
  /\ \A i, j \in 1..Len(log.results) :
       (log.results[i].f = log.results[j].f /\ log.results[i].cand = log.results[j].cand)
         => log.results[i].dev = log.results[j].dev

\* f was called twice with "/cpu:0", the first result parsed into in between
C7_Witness ==
  /\ Len(log.results) >= 2
  /\ log.results[1].cand = <<SLASH, "cpu", COLON, "0">>
  /\ log.results[2].cand = <<SLASH, "cpu", COLON, "0">>
  /\ heap[log.returned[1]] # log.results[1].dev
  /\ heap[fns[1].spec] = [Blank EXCEPT !.job = PyStr(<<"w">>), !.replica = PyInt(1)]

====
